---- MODULE Spec2Model ----
(***************************************************************************)
(* Model of the template engine of xo (package templates, the second part  *)
(* of src/templates/gotpl/types.go): the registry of template sets with   *)
(* Register, For and Flags, Process (emit, sort, order, merge into file    *)
(* buffers), Write/WriteFiles (post-process and persist) and Errors.       *)
(*                                                                         *)
(* Bytes are sequences of lines; a line is a 4-tuple of strings.  Rendering *)
(* a template descriptor yields one line built from the descriptor, so two *)
(* descriptors render the same bytes only when template, type, name and    *)
(* payload agree.  The output directory is a map from file names to        *)
(* entries (absent, directory, regular file with content).                 *)
(***************************************************************************)
EXTENDS Integers, Sequences, FiniteSets, TLC

VARIABLES
  templates,  \* the registry: type name -> template set
  disk,       \* the output directory: file name -> entry
  calls       \* the calls made so far, each with what it returned

vars == <<templates, disk, calls>>

\* Number of Process calls explored in one behaviour.
MaxRuns == 2

\* A nil error.
NoErr == "nil"

(***************************************************************************)
(* Strings.  Go compares strings bytewise; StrOrder lists every string the *)
(* model compares, in that order.                                          *)
(***************************************************************************)
StrOrder ==
  << "", "all.go", "demo", "footer", "go", "header", "index", "json", "nofile",
     "pkg", "posts", "posts.go", "posts_pkey", "table", "users", "users.go",
     "users_pkey" >>

Rank(s) == CHOOSE i \in 1..Len(StrOrder) : StrOrder[i] = s

StrLess(a, b) == Rank(a) < Rank(b)

\* contains returns true when s is in v.
contains(v, s) == \E i \in 1..Len(v) : v[i] = s

RECURSIVE removeMatching(_, _)
\* removeMatching builds a new slice from v containing the strings not in s.
removeMatching(v, s) ==
  IF v = <<>> THEN <<>>
  ELSE IF contains(s, Head(v)) THEN removeMatching(Tail(v), s)
  ELSE <<Head(v)>> \o removeMatching(Tail(v), s)

(***************************************************************************)
(* Template descriptors (type Template).  Set and Extra are folded into    *)
(* the opaque payload Data.                                                *)
(***************************************************************************)
Tpl(t, ty, n, d) == [Template |-> t, Type |-> ty, Name |-> n, Data |-> d]

TablePosts   == Tpl("table", "posts", "posts", "v1")
TablePostsV2 == Tpl("table", "posts", "posts", "v2")
TableUsers   == Tpl("table", "users", "users", "v1")
IndexPosts   == Tpl("index", "posts", "posts_pkey", "syn")
IndexUsers   == Tpl("index", "users", "users_pkey", "v1")
NoFileTpl    == Tpl("nofile", "posts", "posts", "v1")
PkgTpl       == Tpl("pkg", "posts", "", "")
HeaderTpl    == Tpl("header", "", "", "")
FooterTpl    == Tpl("footer", "", "", "")

\* The line a template renders for a descriptor.
Line(tpl) == <<tpl.Template, tpl.Type, tpl.Name, tpl.Data>>

OldLine == <<"old", "", "", "">>
FmtLine == <<"fmt", "", "", "">>

\* Template.File: the resource name of a descriptor (Set is empty).
TplFile(tpl) == tpl.Template

(***************************************************************************)
(* Target-supplied hook values of a template set.                          *)
(***************************************************************************)
\* TemplateSet.FileName: one file per entity type.
FileNameHook(tpl) == tpl.Type

\* TemplateSet.Post: a formatter that rejects content with a syntax error
\* and otherwise puts its mark before the first line, each time it runs.
PostHook(buf) ==
  IF \E i \in 1..Len(buf) : buf[i][4] = "syn"
  THEN [buf |-> <<>>, err |-> "syntax error"]
  ELSE [buf |-> <<FmtLine>> \o buf, err |-> NoErr]

\* BaseFuncs: the baseline helper set.
BaseFuncs == ("lower" :> "sprig") @@ ("upper" :> "sprig")

\* TemplateSet.Funcs: a declared function factory.
DeclaredFuncs == ("schema" :> "go") @@ ("upper" :> "go")

\* What funcs.Init of a well-formed funcs.go.tpl returns.
ScriptFuncs == ("custom" :> "script") @@ ("schema" :> "script")

(***************************************************************************)
(* Template sets (type TemplateSet).  An optional field is a sequence:     *)
(* <<>> is nil, <<x>> is declared.  Files is the embedded resource tree:   *)
(* the template resources it holds and the state of funcs.go.tpl.          *)
(***************************************************************************)
NewSet(for, flags, tpls, script, order, header, pkg, funcs, post) ==
  [ For |-> for, Flags |-> flags, FileExt |-> ".go",
    Files |-> [tpls |-> tpls, funcs |-> script],
    Order |-> order, HeaderTemplate |-> header, PackageTemplates |-> pkg,
    Funcs |-> funcs, Post |-> post,
    emitted |-> <<>>, funcs |-> <<>>, files |-> <<>> ]

AllTpls == {"header", "index", "pkg", "table"}

\* header and package templates; the base order lists "pkg" after "table"
SetPkg ==
  NewSet(<<>>, <<>>, AllTpls, "absent", <<"table", "pkg", "index">>,
         <<HeaderTpl>>, << <<PkgTpl>> >>, <<>>, <<>>)

\* header, post-processing, declared funcs and an extension script
SetPost ==
  NewSet(<< <<"schema">> >>, <<"go-flag">>, AllTpls, "ok", <<"table", "index">>,
         <<HeaderTpl>>, <<>>, <<DeclaredFuncs>>, <<"fmt">>)

\* no header; the order repeats "table" and leaves out "index"
SetBare ==
  NewSet(<<>>, <<>>, AllTpls, "absent", <<"table", "table">>,
         <<>>, <<>>, <<DeclaredFuncs>>, <<>>)

\* the target of the scenario: header, then tables, then footer
SetDemo ==
  NewSet(<<>>, <<>>, {"footer", "header", "table"}, "absent",
         <<"header", "table", "footer">>, <<HeaderTpl>>, <<>>, <<>>, <<>>)

BadScripts == {"unreadable", "evalfail", "noinit", "badshape", "initerr"}

\* SetPost with a funcs.go.tpl that does not meet the extension contract
BadScriptSets == {[SetPost EXCEPT !.Files.funcs = s] : s \in BadScripts}

(***************************************************************************)
(* The output directory.                                                   *)
(***************************************************************************)
NoFile      == [kind |-> "none", data |-> <<>>]
Dir         == [kind |-> "dir", data |-> <<>>]
Regular(b)  == [kind |-> "file", data |-> b]

FileNames == {"all.go", "posts.go", "users.go"}

EmptyDisk == [f \in FileNames |-> NoFile]
UsedDisk  ==
  [f \in FileNames |->
     IF f = "posts.go" THEN Regular(<<OldLine>>)
     ELSE IF f = "users.go" THEN Dir ELSE NoFile]

(***************************************************************************)
(* Renderer.                                                               *)
(***************************************************************************)
\* Load: fails when the resource is not in the set's tree.
Load(set, tpl) ==
  IF TplFile(tpl) \in set.Files.tpls THEN NoErr ELSE "unable to open template"

\* Exec loads and executes a template.
Exec(set, tpl) ==
  IF Load(set, tpl) # NoErr THEN [buf |-> <<>>, err |-> Load(set, tpl)]
  ELSE [buf |-> <<Line(tpl)>>, err |-> NoErr]

\* Emit that records a fragment without bytes when Exec fails.
EmitRecordingFailure(set, tpl) ==
  LET r == Exec(set, tpl) IN
  [set |-> [set EXCEPT !.emitted =
              Append(@, [Template |-> tpl, Buf |-> r.buf, File |-> ""])],
   err |-> r.err]

\* Emit emits a template to the template set.
Emit(set, tpl) ==
  LET r == Exec(set, tpl) IN
  IF r.err # NoErr THEN [set |-> set, err |-> r.err]
  ELSE [set |-> [set EXCEPT !.emitted =
                   Append(@, [Template |-> tpl, Buf |-> r.buf, File |-> ""])],
        err |-> NoErr]

RECURSIVE EmitAll(_, _)
\* Emit each descriptor of tpls in turn, stopping at the first error: the
\* loop of Process over the package templates, and the target's generation
\* logic walking the data model.
EmitAll(set, tpls) ==
  IF tpls = <<>> THEN [set |-> set, err |-> NoErr]
  ELSE LET r == Emit(set, Head(tpls)) IN
       IF r.err # NoErr THEN r ELSE EmitAll(r.set, Tail(tpls))

\* TemplateSet.Process: the generation logic; v is the data model, given as
\* the descriptors in the order the logic walks them.
GenLogic(set, v) == EmitAll(set, v)

(***************************************************************************)
(* Function environment.                                                   *)
(***************************************************************************)
\* AddCustomFuncs without the check that funcs.Init exists: a script that
\* lacks it adds nothing and is not an error.
AddCustomFuncsNoInitCheck(set) ==
  LET s == set.Files.funcs IN
  IF s = "absent" \/ s = "noinit" THEN [set |-> set, err |-> NoErr]
  ELSE IF s = "unreadable" THEN [set |-> set, err |-> "unable to load funcs.go.tpl"]
  ELSE IF s = "evalfail" THEN [set |-> set, err |-> "unable to eval funcs.go.tpl"]
  ELSE IF s = "badshape" THEN [set |-> set, err |-> "funcs.Init must have signature"]
  ELSE IF s = "initerr" THEN [set |-> set, err |-> "funcs.Init error"]
  ELSE [set |-> [set EXCEPT !.funcs = ScriptFuncs @@ @], err |-> NoErr]

\* AddCustomFuncs: evaluate funcs.go.tpl, if the tree has one.
AddCustomFuncs(set) ==
  LET s == set.Files.funcs IN
  IF s = "absent" THEN [set |-> set, err |-> NoErr]
  ELSE IF s = "unreadable" THEN [set |-> set, err |-> "unable to load funcs.go.tpl"]
  ELSE IF s = "evalfail" THEN [set |-> set, err |-> "unable to eval funcs.go.tpl"]
  ELSE IF s = "noinit" THEN [set |-> set, err |-> "unable to eval funcs.Init"]
  ELSE IF s = "badshape" THEN [set |-> set, err |-> "funcs.Init must have signature"]
  ELSE IF s = "initerr" THEN [set |-> set, err |-> "funcs.Init error"]
  ELSE [set |-> [set EXCEPT !.funcs = ScriptFuncs @@ @], err |-> NoErr]

\* BuildFuncs builds the template funcs.
BuildFuncs(set) ==
  AddCustomFuncs([set EXCEPT !.funcs =
                    IF set.Funcs = <<>> THEN BaseFuncs ELSE set.Funcs[1]])

(***************************************************************************)
(* Sorting.  sort.Slice on at most 12 elements is an insertion sort, which *)
(* keeps elements with equal keys in their order.                          *)
(***************************************************************************)
\* The less function with its comparisons the wrong way round.
EmittedLessReversed(a, b) ==
  IF a.Template.Template # b.Template.Template
  THEN StrLess(b.Template.Template, a.Template.Template)
  ELSE IF a.Template.Type # b.Template.Type
  THEN StrLess(b.Template.Type, a.Template.Type)
  ELSE StrLess(b.Template.Name, a.Template.Name)

\* the less function of sortEmitted
EmittedLess(a, b) ==
  IF a.Template.Template # b.Template.Template
  THEN StrLess(a.Template.Template, b.Template.Template)
  ELSE IF a.Template.Type # b.Template.Type
  THEN StrLess(a.Template.Type, b.Template.Type)
  ELSE StrLess(a.Template.Name, b.Template.Name)

RECURSIVE InsertSorted(_, _)
InsertSorted(s, e) ==
  IF s = <<>> THEN <<e>>
  ELSE IF EmittedLess(e, s[Len(s)]) THEN Append(InsertSorted(SubSeq(s, 1, Len(s) - 1), e), s[Len(s)])
  ELSE Append(s, e)

\* sortEmitted leaving the slice as it is.
sortEmittedNoSort(tpl) == tpl

RECURSIVE sortEmitted(_)
\* sortEmitted sorts the emitted templates.
sortEmitted(tpl) ==
  IF tpl = <<>> THEN <<>>
  ELSE InsertSorted(sortEmitted(SubSeq(tpl, 1, Len(tpl) - 1)), tpl[Len(tpl)])

RECURSIVE InsertString(_, _)
InsertString(s, e) ==
  IF s = <<>> THEN <<e>>
  ELSE IF StrLess(e, s[Len(s)]) THEN Append(InsertString(SubSeq(s, 1, Len(s) - 1), e), s[Len(s)])
  ELSE Append(s, e)

RECURSIVE SortStrings(_)
\* sort.Strings over the keys of a map
SortStrings(S) ==
  IF S = {} THEN <<>>
  ELSE LET x == CHOOSE y \in S : TRUE IN InsertString(SortStrings(S \ {x}), x)

(***************************************************************************)
(* Process.                                                                *)
(***************************************************************************)
\* LoadFile that takes the header branch only for a missing file, whatever
\* the append flag.
LoadFileIgnoringAppend(set, dsk, file, doAppend) ==
  IF dsk[file].kind = "none"
  THEN IF set.HeaderTemplate = <<>> THEN [buf |-> <<>>, err |-> NoErr]
       ELSE Exec(set, set.HeaderTemplate[1])
  ELSE IF dsk[file].kind = "dir"
  THEN [buf |-> <<>>, err |-> "is a directory: cannot emit template"]
  ELSE [buf |-> dsk[file].data, err |-> NoErr]

\* LoadFile loads a file: the seed of a new file buffer.
LoadFile(set, dsk, file, doAppend) ==
  IF dsk[file].kind = "none" \/ ~doAppend
  THEN IF set.HeaderTemplate = <<>> THEN [buf |-> <<>>, err |-> NoErr]
       ELSE Exec(set, set.HeaderTemplate[1])
  ELSE IF dsk[file].kind = "dir"
  THEN [buf |-> <<>>, err |-> "is a directory: cannot emit template"]
  ELSE [buf |-> dsk[file].data, err |-> NoErr]

\* The body of the merge loop for the emitted template at index i.
MergeOne(set, dsk, doAppend, single, i) ==
  LET tpl  == set.emitted[i]
      file == IF single # "" THEN single
              ELSE FileNameHook(tpl.Template) \o set.FileExt
      s1   == [set EXCEPT !.emitted[i].File = file]
  IN IF file \in DOMAIN s1.files
     THEN [set |-> [s1 EXCEPT !.files[file].Buf = @ \o tpl.Buf], err |-> NoErr]
     ELSE LET l == LoadFile(s1, dsk, file, doAppend) IN
          IF l.err # NoErr THEN [set |-> s1, err |-> l.err]
          ELSE [set |-> [s1 EXCEPT !.files = @ @@
                           (file :> [Buf |-> l.buf \o tpl.Buf, File |-> file,
                                     Err |-> <<>>])],
                err |-> NoErr]

RECURSIVE MergeNameFirstMatch(_, _, _, _, _, _)
\* The inner loop leaving after the first emitted template named n.
MergeNameFirstMatch(set, dsk, doAppend, single, n, i) ==
  IF i > Len(set.emitted) THEN [set |-> set, err |-> NoErr]
  ELSE IF set.emitted[i].Template.Template # n
  THEN MergeNameFirstMatch(set, dsk, doAppend, single, n, i + 1)
  ELSE MergeOne(set, dsk, doAppend, single, i)

RECURSIVE MergeName(_, _, _, _, _, _)
\* The inner loop: every emitted template named n, from index i on.
MergeName(set, dsk, doAppend, single, n, i) ==
  IF i > Len(set.emitted) THEN [set |-> set, err |-> NoErr]
  ELSE IF set.emitted[i].Template.Template # n
  THEN MergeName(set, dsk, doAppend, single, n, i + 1)
  ELSE LET r == MergeOne(set, dsk, doAppend, single, i) IN
       IF r.err # NoErr THEN r
       ELSE MergeName(r.set, dsk, doAppend, single, n, i + 1)

RECURSIVE MergeOrderBackwards(_, _, _, _, _)
\* The outer loop walking the processing order from its last name to its
\* first.
MergeOrderBackwards(set, dsk, doAppend, single, order) ==
  IF order = <<>> THEN [set |-> set, err |-> NoErr]
  ELSE LET r == MergeName(set, dsk, doAppend, single, order[Len(order)], 1) IN
       IF r.err # NoErr THEN r
       ELSE MergeOrderBackwards(r.set, dsk, doAppend, single,
                                SubSeq(order, 1, Len(order) - 1))

RECURSIVE MergeOrder(_, _, _, _, _)
\* The outer loop over the processing order.
MergeOrder(set, dsk, doAppend, single, order) ==
  IF order = <<>> THEN [set |-> set, err |-> NoErr]
  ELSE LET r == MergeName(set, dsk, doAppend, single, Head(order), 1) IN
       IF r.err # NoErr THEN r
       ELSE MergeOrder(r.set, dsk, doAppend, single, Tail(order))

\* The template names of a list of descriptors.
TemplateNames(tpls) == [i \in 1..Len(tpls) |-> tpls[i].Template]

\* The processing order of a run: the package templates first.
FinalOrder(set, doAppend) ==
  IF ~doAppend /\ set.PackageTemplates # <<>>
  THEN LET additional == TemplateNames(set.PackageTemplates[1]) IN
       additional \o removeMatching(set.Order, additional)
  ELSE set.Order

\* Process from the sort on: sort, package templates, merge.
SortAndMerge(set, dsk, doAppend, single) ==
  LET s1 == [set EXCEPT !.emitted = sortEmitted(@)]
      p  == IF ~doAppend /\ s1.PackageTemplates # <<>>
            THEN EmitAll(s1, s1.PackageTemplates[1])
            ELSE [set |-> s1, err |-> NoErr]
  IN IF p.err # NoErr THEN p
     ELSE MergeOrder([p.set EXCEPT !.files = <<>>], dsk, doAppend, single,
                     FinalOrder(p.set, doAppend))

\* Process on a registered set: [set, err].
ProcessSet(set, dsk, doAppend, single, v) ==
  LET b == BuildFuncs(set) IN
  IF b.err # NoErr
  THEN [set |-> b.set, err |-> "unable to build template funcs"]
  ELSE LET g == GenLogic(b.set, v) IN
       IF g.err # NoErr THEN g
       ELSE SortAndMerge(g.set, dsk, doAppend, single)

\* Process that registers an empty set under a name it does not find.
ProcessRunRegistering(tpls, dsk, typ, doAppend, single, v) ==
  IF typ \notin DOMAIN tpls
  THEN [templates |-> (typ :> NewSet(<<>>, <<>>, {}, "absent", <<>>, <<>>, <<>>,
                                     <<>>, <<>>)) @@ tpls,
        err |-> "unknown template"]
  ELSE LET r == ProcessSet(tpls[typ], dsk, doAppend, single, v) IN
       [templates |-> [tpls EXCEPT ![typ] = r.set], err |-> r.err]

\* Process processes emitted templates for a template set: [templates, err].
ProcessRun(tpls, dsk, typ, doAppend, single, v) ==
  IF typ \notin DOMAIN tpls
  THEN [templates |-> tpls, err |-> "unknown template"]
  ELSE LET r == ProcessSet(tpls[typ], dsk, doAppend, single, v) IN
       [templates |-> [tpls EXCEPT ![typ] = r.set], err |-> r.err]

(***************************************************************************)
(* Write, WriteFiles, Errors.                                              *)
(***************************************************************************)
PostErr(file)  == [kind |-> "post failed", file |-> file]
WriteErr(file) == [kind |-> "write", file |-> file]

\* The loop of Write giving up at the first file whose post-processing
\* fails.
RECURSIVE PostFilesStopping(_, _)
PostFilesStopping(set, files) ==
  IF files = <<>> THEN set
  ELSE LET file == Head(files)
           r    == PostHook(set.files[file].Buf)
       IN IF r.err # NoErr
          THEN [set EXCEPT !.files[file].Err = Append(@, PostErr(file))]
          ELSE PostFilesStopping([set EXCEPT !.files[file].Buf = r.buf],
                                 Tail(files))

\* The loop of Write storing what the hook returned also when it failed.
RECURSIVE PostFilesDiscarding(_, _)
PostFilesDiscarding(set, files) ==
  IF files = <<>> THEN set
  ELSE LET file == Head(files)
           r    == PostHook(set.files[file].Buf)
       IN PostFilesDiscarding(
            IF r.err # NoErr
            THEN [set EXCEPT !.files[file].Err = Append(@, PostErr(file)),
                             !.files[file].Buf = r.buf]
            ELSE [set EXCEPT !.files[file].Buf = r.buf],
            Tail(files))

RECURSIVE PostFiles(_, _)
\* The loop of Write over the sorted file names.
PostFiles(set, files) ==
  IF files = <<>> THEN set
  ELSE LET file == Head(files)
           r    == PostHook(set.files[file].Buf)
       IN PostFiles(IF r.err # NoErr
                    THEN [set EXCEPT !.files[file].Err = Append(@, PostErr(file))]
                    ELSE [set EXCEPT !.files[file].Buf = r.buf],
                    Tail(files))

\* ioutil.WriteFile fails on a directory, else creates or truncates the file.
CanWrite(dsk, file) == dsk[file].kind # "dir"

RECURSIVE WriteLoop(_, _, _)
\* The loop of WriteFiles over the sorted file names: [set, disk].
WriteLoop(set, dsk, files) ==
  IF files = <<>> THEN [set |-> set, disk |-> dsk]
  ELSE LET file == Head(files) IN
       IF CanWrite(dsk, file)
       THEN WriteLoop(set, [dsk EXCEPT ![file] = Regular(set.files[file].Buf)],
                      Tail(files))
       ELSE WriteLoop([set EXCEPT !.files[file].Err = Append(@, WriteErr(file))],
                      dsk, Tail(files))

\* WriteFiles writes the generated files to disk: [templates, disk, err].
WriteFiles(tpls, dsk, typ) ==
  IF typ \notin DOMAIN tpls
  THEN [templates |-> tpls, disk |-> dsk, err |-> "unknown template"]
  ELSE LET r == WriteLoop(tpls[typ], dsk, SortStrings(DOMAIN tpls[typ].files)) IN
       [templates |-> [tpls EXCEPT ![typ] = r.set], disk |-> r.disk,
        err |-> NoErr]

\* Write post-processes the file buffers and writes them.
WriteRun(tpls, dsk, typ) ==
  IF typ \notin DOMAIN tpls
  THEN [templates |-> tpls, disk |-> dsk, err |-> "unknown template"]
  ELSE IF tpls[typ].Post = <<>> THEN WriteFiles(tpls, dsk, typ)
  ELSE WriteFiles([tpls EXCEPT ![typ] =
                     PostFiles(@, SortStrings(DOMAIN @.files))], dsk, typ)

RECURSIVE ConcatErrsBackwards(_, _)
\* The loop of Errors putting the errors of later files first.
ConcatErrsBackwards(set, files) ==
  IF files = <<>> THEN <<>>
  ELSE ConcatErrsBackwards(set, Tail(files)) \o set.files[Head(files)].Err

RECURSIVE ConcatErrs(_, _)
ConcatErrs(set, files) ==
  IF files = <<>> THEN <<>>
  ELSE set.files[Head(files)].Err \o ConcatErrs(set, Tail(files))

\* Errors returns errors collected during file generation.
Errors(tpls, typ) ==
  IF typ \notin DOMAIN tpls THEN [errors |-> <<>>, err |-> "unknown template"]
  ELSE [errors |-> ConcatErrs(tpls[typ], SortStrings(DOMAIN tpls[typ].files)),
        err |-> NoErr]

(***************************************************************************)
(* Queries of the registry.                                                *)
(***************************************************************************)
\* Types returns the registered type names of template sets.
Types(tpls) == SortStrings(DOMAIN tpls)

\* For returns true if the template is available for the command name.
For(tpls, typ, name) ==
  IF name = "dump" THEN TRUE
  ELSE IF typ \in DOMAIN tpls /\ tpls[typ].For # <<>>
  THEN contains(tpls[typ].For[1], name)
  ELSE TRUE

\* xo.FlagSet: a flag tagged with the type of its set.
FlagSet(typ, flag) == [Type |-> typ, Name |-> flag, Flag |-> flag]

RECURSIVE FlagsLoop(_, _, _)
\* The loop of Flags over Types().
FlagsLoop(tpls, name, types) ==
  IF types = <<>> THEN <<>>
  ELSE LET typ == Head(types)
           set == tpls[typ]
       IN (IF set.For # <<>> /\ ~contains(set.For[1], name) THEN <<>>
           ELSE [i \in 1..Len(set.Flags) |-> FlagSet(typ, set.Flags[i])])
            \o FlagsLoop(tpls, name, Tail(types))

\* Flags returns flag options for the template sets for the command name.
Flags(tpls, name) == FlagsLoop(tpls, name, Types(tpls))

(***************************************************************************)
(* The state machine.  One target, "go", is registered, and may be         *)
(* registered again at start-up; a caller runs Process and may then run    *)
(* Write, one run after the other.                                         *)
(***************************************************************************)
Registered   == "go"
Unregistered == "nope"

\* Data models, each as the emission sequence of the generation logic.
Models ==
  { <<TableUsers, IndexPosts, TablePosts>>,
    <<TablePostsV2, TablePosts>>,
    <<TablePosts, NoFileTpl>>,
    <<IndexUsers>> }

\* (append flag, single-file override)
Modes == { <<FALSE, "">>, <<TRUE, "">>, <<FALSE, "all.go">> }

\* A call and what it returned; v is the value passed: the set of Register,
\* the data model of Process, the command name of For and Flags.
Call(op, typ, doAppend, single, v, ret) ==
  [op |-> op, typ |-> typ, doAppend |-> doAppend, single |-> single, v |-> v,
   ret |-> ret]

\* The latest call; before any call, a placeholder.
last ==
  IF calls = <<>> THEN Call("none", "", FALSE, "", <<>>, NoErr)
  ELSE calls[Len(calls)]

\* The number of Process calls made.
runs == Cardinality({i \in 1..Len(calls) : calls[i].op = "Process"})

Init ==
  /\ \/ /\ \E set \in {SetPkg, SetPost} : templates = (Registered :> set)
        /\ disk \in {EmptyDisk, UsedDisk}
     \/ /\ \E set \in BadScriptSets : templates = (Registered :> set)
        /\ disk = EmptyDisk
  /\ calls = <<>>

\* Register that leaves a name that is registered already as it is.
RegisterKeepingFirst(typ, set) ==
  /\ \A i \in 1..Len(calls) : calls[i].op = "Register"
  /\ templates' = templates @@ (typ :> set)
  /\ calls' = Append(calls, Call("Register", typ, FALSE, "", set, NoErr))
  /\ UNCHANGED disk

\* Register registers a template set; targets register at start-up, before
\* any other call.
Register(typ, set) ==
  /\ \A i \in 1..Len(calls) : calls[i].op = "Register"
  /\ templates' = (typ :> set) @@ templates
  /\ calls' = Append(calls, Call("Register", typ, FALSE, "", set, NoErr))
  /\ UNCHANGED disk

Process(typ, doAppend, single, v) ==
  /\ runs < MaxRuns
  /\ LET r == ProcessRun(templates, disk, typ, doAppend, single, v) IN
       /\ templates' = r.templates
       /\ calls' = Append(calls, Call("Process", typ, doAppend, single, v, r.err))
  /\ UNCHANGED disk

Write(typ) ==
  /\ last.op = "Process"
  /\ typ = last.typ
  /\ LET r == WriteRun(templates, disk, typ) IN
       /\ templates' = r.templates
       /\ disk' = r.disk
       /\ calls' = Append(calls, Call("Write", typ, FALSE, "", <<>>, r.err))

Next ==
  \/ calls = <<>> /\ Register(Registered, SetBare)
  \/ \E m \in Modes, v \in Models : Process(Registered, m[1], m[2], v)
  \/ Process(Unregistered, FALSE, "", <<TablePosts>>)
  \/ Write(last.typ)

Spec == Init /\ [][Next]_vars

(***************************************************************************)
(* The scenario target on its own: "demo" is the one registered target,    *)
(* its generation logic emits the two tables, with or without a footer, in *)
(* any order, into a single output file.                                   *)
(***************************************************************************)
Demo == "demo"

DemoModels ==
  LET perms(v) == {[i \in 1..Len(v) |-> v[p[i]]] : p \in Permutations(1..Len(v))}
  IN perms(<<TablePosts, TableUsers>>)
       \cup perms(<<TablePosts, TableUsers, FooterTpl>>)

DemoModes == { <<FALSE, "all.go">>, <<TRUE, "all.go">> }

DemoInit ==
  /\ templates = (Demo :> SetDemo)
  /\ disk = EmptyDisk
  /\ calls = <<>>

DemoNext ==
  \/ \E m \in DemoModes, v \in DemoModels : Process(Demo, m[1], m[2], v)
  \/ Write(last.typ)

DemoSpec == DemoInit /\ [][DemoNext]_vars

(***************************************************************************)
(* The registry on its own: targets register, some of them twice, and the  *)
(* command line then asks For or Flags.                                    *)
(***************************************************************************)
\* Number of Register calls explored in one behaviour.
MaxRegs == 2

RegNames == {"go", "json"}

\* Sets by capability list and flags: a list without "dump", no list, an
\* empty list, a list with "dump".
RegSets ==
  { SetPost,
    [SetPkg EXCEPT !.Flags = <<"pkg-flag">>],
    [SetPkg EXCEPT !.For = << <<>> >>, !.Flags = <<"none-flag">>],
    [SetPost EXCEPT !.For = << <<"query", "dump">> >>,
                    !.Flags = <<"json-flag", "indent">>] }

CommandNames == {"schema", "query", "dump"}

\* A caller asks For(typ, name).
AskFor(typ, name) ==
  /\ last.op \notin {"For", "Flags"}
  /\ calls' = Append(calls, Call("For", typ, FALSE, "", name,
                                 For(templates, typ, name)))
  /\ UNCHANGED <<templates, disk>>

\* A caller asks Flags(name).
AskFlags(name) ==
  /\ last.op \notin {"For", "Flags"}
  /\ calls' = Append(calls, Call("Flags", "", FALSE, "", name,
                                 Flags(templates, name)))
  /\ UNCHANGED <<templates, disk>>

RegistryInit ==
  /\ templates = <<>>
  /\ disk = EmptyDisk
  /\ calls = <<>>

RegistryNext ==
  \/ /\ Len(calls) < MaxRegs
     /\ \E typ \in RegNames, set \in RegSets : Register(typ, set)
  \/ \E typ \in RegNames, name \in CommandNames : AskFor(typ, name)
  \/ \E name \in CommandNames : AskFlags(name)

RegistrySpec == RegistryInit /\ [][RegistryNext]_vars

(***************************************************************************)
(* Vocabulary of the properties.                                           *)
(***************************************************************************)
\* The step just taken is a call of Process / of Write.
ProcessStep == Len(calls') = Len(calls) + 1 /\ last'.op = "Process"
WriteStep   == Len(calls') = Len(calls) + 1 /\ last'.op = "Write"

\* The latest call is a Process call that returned nil.
ProcessDone == last.op = "Process" /\ last.ret = NoErr

\* The set the latest call worked on (a registered one).
RunSet == templates[last.typ]

\* The package templates the latest Process call rendered.
RunPkgs ==
  IF ~last.doAppend /\ RunSet.PackageTemplates # <<>>
  THEN RunSet.PackageTemplates[1] ELSE <<>>

Elems(seq) == {seq[i] : i \in 1..Len(seq)}

LinesOf(tpls) == {Line(tpls[i]) : i \in 1..Len(tpls)}

\* The file a descriptor is destined for in the latest call.
RunFile(tpl) ==
  IF last.single # "" THEN last.single
  ELSE FileNameHook(tpl) \o RunSet.FileExt

\* How many fragments the merge appended to file f.
MergedCount(set, order, f) ==
  Cardinality({ki \in (1..Len(order)) \X (1..Len(set.emitted)) :
                 /\ set.emitted[ki[2]].Template.Template = order[ki[1]]
                 /\ set.emitted[ki[2]].File = f})

\* The part of f's buffer that the merge appended, and the seed before it.
FragPart(f) ==
  LET b == RunSet.files[f].Buf
      n == MergedCount(RunSet, FinalOrder(RunSet, last.doAppend), f)
  IN SubSeq(b, Len(b) - n + 1, Len(b))

SeedPart(f) ==
  LET b == RunSet.files[f].Buf
      n == MergedCount(RunSet, FinalOrder(RunSet, last.doAppend), f)
  IN SubSeq(b, 1, Len(b) - n)

SameKey(a, b) ==
  a.Template = b.Template /\ a.Type = b.Type /\ a.Name = b.Name

DistinctKeys(tpls) ==
  \A i, j \in 1..Len(tpls) : SameKey(tpls[i], tpls[j]) => i = j

Descriptors(emitted) == [i \in 1..Len(emitted) |-> emitted[i].Template]

\* Every order in which the generation logic can walk the same data model.
PermsOf(v) ==
  {[i \in 1..Len(v) |-> v[p[i]]] : p \in Permutations(1..Len(v))}

\* (template, type, name) of one line before that of another
LineKeyLess(a, b) ==
  IF a[1] # b[1] THEN StrLess(a[1], b[1])
  ELSE IF a[2] # b[2] THEN StrLess(a[2], b[2])
  ELSE StrLess(a[3], b[3])

\* (type, name) of one line before that of another
LineTypeNameLess(a, b) ==
  IF a[2] # b[2] THEN StrLess(a[2], b[2]) ELSE StrLess(a[3], b[3])

Occurrences(seq, x) == Cardinality({i \in 1..Len(seq) : seq[i] = x})

(***************************************************************************)
(* C1.  Determinism across repeated runs: a Process call that repeats the  *)
(* previous successful Process call (same target, mode and data model, the *)
(* output directory untouched in between) leaves the same file buffers.    *)
(***************************************************************************)
\* C1: repeating a successful Process call leaves the file buffers equal.
C1_RepeatedRunSameBuffers ==
  [][ (ProcessStep /\ last.op = "Process" /\ last.ret = NoErr /\ last' = last)
        => templates'[last.typ].files = templates[last.typ].files ]_vars

(***************************************************************************)
(* C2.  Run-state reset: after a successful Process the fragment list      *)
(* holds exactly the fragments of this run, and every line of every file   *)
(* buffer is seed content of that file or a fragment of this run.          *)
(***************************************************************************)
\* C2: after Process, fragment list and buffers hold this run's fragments only.
C2_RunStateReset ==
  ProcessDone =>
    /\ Len(RunSet.emitted) = Len(last.v) + Len(RunPkgs)
    /\ \A f \in DOMAIN RunSet.files :
         \A i \in 1..Len(RunSet.files[f].Buf) :
            RunSet.files[f].Buf[i] \in
               Elems(disk[f].data) \cup LinesOf(RunSet.HeaderTemplate)
                 \cup LinesOf(last.v) \cup LinesOf(RunPkgs)

(***************************************************************************)
(* C3.  Emission-order independence: had the generation logic walked the   *)
(* data model of a Process call in any other order, the call would have    *)
(* left the same file buffers.                                             *)
(***************************************************************************)
SameBuffersForEveryOrder ==
  \A p \in PermsOf(last'.v) :
     ProcessRun(templates, disk, last'.typ, last'.doAppend, last'.single, p)
        .templates[last'.typ].files = templates'[last'.typ].files

\* C3 as stated: every Process call leaves the same file buffers for every
\* emission order of its data model.
C3_EmissionOrderIndependent ==
  [][ (ProcessStep /\ last'.typ \in DOMAIN templates)
        => SameBuffersForEveryOrder ]_vars

\* C3 as amended: the same, for a run in which no two fragments of the
\* fragment list share (template, type, name).
C3_EmissionOrderIndependentDistinctKeys ==
  [][ (/\ ProcessStep
       /\ last'.typ \in DOMAIN templates
       /\ DistinctKeys(Descriptors(templates[last'.typ].emitted) \o last'.v))
        => SameBuffersForEveryOrder ]_vars

\* A successful run over distinct keys emitted out of key order, two of
\* its fragments merged into one file.
C3_Witness ==
  /\ ProcessDone
  /\ DistinctKeys(Descriptors(RunSet.emitted))
  /\ \E i, j \in 1..Len(last.v) :
        i < j /\ LineKeyLess(Line(last.v[j]), Line(last.v[i]))
  /\ \E f \in DOMAIN RunSet.files :
        \E i, j \in 1..Len(last.v) :
           /\ i # j
           /\ Occurrences(FragPart(f), Line(last.v[i])) > 0
           /\ Occurrences(FragPart(f), Line(last.v[j])) > 0

(***************************************************************************)
(* C4.  Package-template precedence: after a successful non-append Process *)
(* on a set with package templates, each package fragment is in its file   *)
(* exactly once, before every other fragment merged into that file.        *)
(***************************************************************************)
\* C4: each package fragment once, and first, in its file.
C4_PackageFirstExactlyOnce ==
  (ProcessDone /\ RunPkgs # <<>>) =>
    \A k \in 1..Len(RunPkgs) :
       LET f == RunFile(RunPkgs[k]) IN
       /\ f \in DOMAIN RunSet.files
       /\ Occurrences(FragPart(f), Line(RunPkgs[k])) = 1
       /\ \A i, j \in 1..Len(FragPart(f)) :
             (/\ FragPart(f)[i] = Line(RunPkgs[k])
              /\ FragPart(f)[j] \notin LinesOf(RunPkgs)) => i < j

(***************************************************************************)
(* C5.  Within one file buffer the merged fragments are in the order of    *)
(* the sort key (template, type, name): no fragment is followed by one     *)
(* with a smaller key.                                                     *)
(***************************************************************************)
\* C5 as stated: every buffer is in (template, type, name) order.
C5_BufferInKeyOrder ==
  ProcessDone =>
    \A f \in DOMAIN RunSet.files :
       \A i, j \in 1..Len(FragPart(f)) :
          i < j => ~LineKeyLess(FragPart(f)[j], FragPart(f)[i])

\* Where a template name is listed in the processing order of the run.
ListedOnce(n) ==
  Occurrences(FinalOrder(RunSet, last.doAppend), n) = 1

Position(n) ==
  CHOOSE k \in 1..Len(FinalOrder(RunSet, last.doAppend)) :
     FinalOrder(RunSet, last.doAppend)[k] = n

\* C5 as amended: of two fragments in one buffer whose template names the
\* processing order lists once, the one whose template name comes first in
\* the processing order comes first; two of the same template name, not one
\* of this run's package templates, are in (type, name) order.
C5_BufferInProcessingOrder ==
  ProcessDone =>
    \A f \in DOMAIN RunSet.files :
       \A i, j \in 1..Len(FragPart(f)) :
          LET a == FragPart(f)[i]
              b == FragPart(f)[j]
          IN (i < j /\ ListedOnce(a[1]) /\ ListedOnce(b[1])) =>
               /\ Position(a[1]) <= Position(b[1])
               /\ (a[1] = b[1] /\ ~contains(TemplateNames(RunPkgs), a[1]))
                     => ~LineTypeNameLess(b, a)

\* A buffer holding two fragments of one template name in (type, name)
\* order that were emitted in the other order, and a fragment whose
\* template name is smaller after one whose template name is greater.
C5_Witness ==
  /\ ProcessDone
  /\ \E f \in DOMAIN RunSet.files :
        /\ \E i, j \in 1..Len(FragPart(f)) :
              /\ i < j
              /\ FragPart(f)[i][1] = FragPart(f)[j][1]
              /\ ListedOnce(FragPart(f)[i][1])
              /\ LineTypeNameLess(FragPart(f)[i], FragPart(f)[j])
              /\ \E k, l \in 1..Len(last.v) :
                    /\ k > l
                    /\ Line(last.v[k]) = FragPart(f)[i]
                    /\ Line(last.v[l]) = FragPart(f)[j]
        /\ \E i, j \in 1..Len(FragPart(f)) :
              /\ i < j
              /\ ListedOnce(FragPart(f)[i][1])
              /\ ListedOnce(FragPart(f)[j][1])
              /\ StrLess(FragPart(f)[j][1], FragPart(f)[i][1])

(***************************************************************************)
(* C6.  Append semantics: when the pipeline has run in append mode and     *)
(* Process runs in append mode again, the buffer of every file that is on  *)
(* disk is that file's content followed by the fragments of the second     *)
(* run alone, and holds the header at most once.                           *)
(***************************************************************************)
\* The calls end with Process (append), Write, Process (append), all on one
\* target and all returning nil.
AppendedTwice ==
  /\ Len(calls) >= 3
  /\ \A k \in Len(calls) - 2 .. Len(calls) :
        calls[k].typ = last.typ /\ calls[k].ret = NoErr
  /\ calls[Len(calls) - 2].op = "Process" /\ calls[Len(calls) - 2].doAppend
  /\ calls[Len(calls) - 1].op = "Write"
  /\ last.op = "Process" /\ last.doAppend

\* The buffers Process leaves for the data model of the latest call when
\* the fragment list is empty at its start.
FreshFiles ==
  ProcessSet([RunSet EXCEPT !.emitted = <<>>], disk, last.doAppend,
             last.single, last.v).set.files

\* The fragments of the latest call alone that belong in file f, merged.
NewFragments(f) ==
  IF f \in DOMAIN FreshFiles
  THEN SubSeq(FreshFiles[f].Buf, Len(disk[f].data) + 1, Len(FreshFiles[f].Buf))
  ELSE <<>>

\* C6: after the second append run, a buffer of a file on disk is the
\* content on disk followed by the second run's fragments, the header in it
\* at most once.
C6_AppendAddsNewFragmentsOnly ==
  AppendedTwice =>
    \A f \in DOMAIN RunSet.files :
       disk[f].kind = "file" =>
         /\ RunSet.files[f].Buf = disk[f].data \o NewFragments(f)
         /\ \A t \in Elems(RunSet.HeaderTemplate) :
              Occurrences(RunSet.files[f].Buf, Line(t)) <= 1

(***************************************************************************)
(* C7.  Buffer seeding: after a successful Process the seed of every file  *)
(* buffer (what precedes the merged fragments) is one rendering of the     *)
(* header iff a header template is declared and the file did not exist or  *)
(* the run is non-append; it is the file's prior content iff the run is in *)
(* append mode and the file exists as a regular file; else it is empty.    *)
(***************************************************************************)
HeaderSeeded(f) ==
  RunSet.HeaderTemplate # <<>> /\ (disk[f].kind = "none" \/ ~last.doAppend)

ContentSeeded(f) == last.doAppend /\ disk[f].kind = "file"

\* C7: the seed of every buffer follows the rule above.
C7_SeedRule ==
  ProcessDone =>
    \A f \in DOMAIN RunSet.files :
       /\ HeaderSeeded(f) => SeedPart(f) = <<Line(RunSet.HeaderTemplate[1])>>
       /\ ContentSeeded(f) => SeedPart(f) = disk[f].data
       /\ (~HeaderSeeded(f) /\ ~ContentSeeded(f)) => SeedPart(f) = <<>>

\* A non-append run over an existing file: the buffer starts with the
\* header and holds nothing of the prior content.
C7_Witness ==
  /\ ProcessDone
  /\ ~last.doAppend
  /\ \E f \in DOMAIN RunSet.files :
        /\ disk[f].kind = "file" /\ disk[f].data # <<>>
        /\ RunSet.HeaderTemplate # <<>>
        /\ RunSet.files[f].Buf[1] = Line(RunSet.HeaderTemplate[1])
        /\ \A i \in 1..Len(RunSet.files[f].Buf) : RunSet.files[f].Buf[i] # OldLine

(***************************************************************************)
(* C8.  Per-file failure isolation: in a Write call, every file whose own  *)
(* post-processing and write do not fail is post-processed and persisted   *)
(* and has an empty error list, whatever happens to the other files; every *)
(* error that Errors reports names a file that failed.                     *)
(***************************************************************************)
\* File f of set fails in a Write call that starts with directory dsk.
FailsIn(set, dsk, f) ==
  \/ set.Post # <<>> /\ PostHook(set.files[f].Buf).err # NoErr
  \/ dsk[f].kind = "dir"

\* C8: a Write call isolates the failures of one file from the others.
C8_FileIsolation ==
  [][ (WriteStep /\ last'.typ \in DOMAIN templates) =>
        LET old == templates[last'.typ]
            new == templates'[last'.typ]
        IN /\ \A b \in DOMAIN old.files :
                ~FailsIn(old, disk, b) =>
                  /\ new.files[b].Err = <<>>
                  /\ new.files[b].Buf =
                       IF old.Post = <<>> THEN old.files[b].Buf
                       ELSE PostHook(old.files[b].Buf).buf
                  /\ disk'[b] = Regular(new.files[b].Buf)
           /\ \A e \in Elems(Errors(templates', last'.typ).errors) :
                FailsIn(old, disk, e.file) ]_vars

\* After a Write, a file whose post-processing failed and a later file, in
\* file-name order, that is persisted post-processed with no error.
C8_Witness ==
  /\ last.op = "Write"
  /\ last.typ \in DOMAIN templates
  /\ \E a, b \in DOMAIN RunSet.files :
        /\ StrLess(a, b)
        /\ \E i \in 1..Len(RunSet.files[a].Err) :
              RunSet.files[a].Err[i] = PostErr(a)
        /\ RunSet.files[b].Err = <<>>
        /\ RunSet.files[b].Buf[1] = FmtLine
        /\ disk[b] = Regular(RunSet.files[b].Buf)

(***************************************************************************)
(* C9.  Fatal failures abort before persistence: a Process call that       *)
(* returns an error leaves the output directory as it was; on a name that  *)
(* is not registered it returns "unknown template" and leaves every        *)
(* template set as it was.                                                 *)
(***************************************************************************)
\* C9: a failing Process call changes no file; on an unknown name, no set.
C9_FailureBeforePersistence ==
  [][ (ProcessStep /\ last'.ret # NoErr) =>
        /\ disk' = disk
        /\ last'.typ \notin DOMAIN templates =>
             last'.ret = "unknown template" /\ templates' = templates ]_vars

\* Process on the unregistered name has failed.
C9_Witness ==
  /\ last.op = "Process"
  /\ last.typ \notin DOMAIN templates
  /\ last.ret = "unknown template"

(***************************************************************************)
(* C10.  Extension contract: with a funcs.go.tpl that cannot be read or    *)
(* evaluated, lacks Init, has a mis-shaped Init or whose Init fails,       *)
(* Process fails and emits no fragment; with no funcs.go.tpl the function  *)
(* environment after Process is the declared factory's result, or the      *)
(* baseline set when none is declared.                                     *)
(***************************************************************************)
\* C10: a bad funcs.go.tpl fails Process before any Emit; an absent one
\* leaves the factory's or the baseline functions.
C10_ExtensionContract ==
  [][ (ProcessStep /\ last'.typ \in DOMAIN templates) =>
        LET old == templates[last'.typ]
            new == templates'[last'.typ]
        IN /\ old.Files.funcs \in BadScripts =>
                /\ last'.ret = "unable to build template funcs"
                /\ new.emitted = old.emitted
                /\ new.files = old.files
           /\ old.Files.funcs = "absent" =>
                /\ last'.ret # "unable to build template funcs"
                /\ new.funcs = IF old.Funcs = <<>> THEN BaseFuncs
                               ELSE old.Funcs[1] ]_vars

\* Process has failed on a set whose funcs.go.tpl lacks Init, with nothing
\* emitted.
C10_Witness ==
  /\ last.op = "Process"
  /\ last.typ \in DOMAIN templates
  /\ RunSet.Files.funcs = "noinit"
  /\ last.ret = "unable to build template funcs"
  /\ RunSet.emitted = <<>>

(***************************************************************************)
(* C11.  Declared processing order: the fragments merged into a file are   *)
(* in the final processing order of their template names and, within one   *)
(* template name, in (type, name) order.  Scenario: on the target with     *)
(* order [header, table, footer] and no package templates, a first,        *)
(* non-append, single-file run whose generation logic emits the tables     *)
(* posts and users in any order leaves one file: header, TABLE posts,      *)
(* TABLE users, footer.                                                    *)
(***************************************************************************)
\* The latest call is a first, successful, non-append run into "all.go".
ScenarioRun ==
  /\ ProcessDone
  /\ runs = 1
  /\ ~last.doAppend
  /\ last.single = "all.go"

OneFile(buf) == ("all.go" :> [Buf |-> buf, File |-> "all.go", Err |-> <<>>])

RaisedFor(set, dsk, f) ==
  (IF set.Post # <<>> /\ PostHook(set.files[f].Buf).err # NoErr
   THEN <<PostErr(f)>> ELSE <<>>)
    \o (IF dsk[f].kind = "dir" THEN <<WriteErr(f)>> ELSE <<>>)

\* C12: Errors after Write is each file's own errors, once, in file order.
C12_ErrorsByFile ==
  [][ (WriteStep /\ last.ret = NoErr /\ last'.typ \in DOMAIN templates) =>
        LET old == templates[last'.typ]
            new == templates'[last'.typ]
            r   == Errors(templates', last'.typ)
            E   == r.errors
        IN /\ r.err = NoErr
           /\ \A i \in 1..Len(E) : E[i].file \in DOMAIN old.files
           /\ \A i, j \in 1..Len(E) : i < j => ~StrLess(E[j].file, E[i].file)
           /\ \A f \in DOMAIN old.files :
                /\ SelectSeq(E, LAMBDA e : e.file = f) = RaisedFor(old, disk, f)
                /\ new.files[f].Err = RaisedFor(old, disk, f) ]_vars

\* After a Write, Errors reports the post-processing failure of one file
\* and then the write failure of a later file.
C12_Witness ==
  /\ last.op = "Write"
  /\ last.typ \in DOMAIN templates
  /\ calls[Len(calls) - 1].ret = NoErr
  /\ Errors(templates, last.typ).errors
       = <<PostErr("posts.go"), WriteErr("users.go")>>

(***************************************************************************)
(* C13.  Flags(name) returns the flags of exactly the registered sets for  *)
(* which For(typ, name) is true, "dump" included, each tagged with the     *)
(* type of its set.                                                        *)
(***************************************************************************)
ForStep   == Len(calls') = Len(calls) + 1 /\ last'.op = "For"
FlagsStep == Len(calls') = Len(calls) + 1 /\ last'.op = "Flags"

\* C13: the flags returned are those of the sets For reports available.
C13_FlagsOfApplicableSets ==
  [][ FlagsStep =>
        Elems(last'.ret) =
          UNION { {FlagSet(typ, templates[typ].Flags[i]) :
                     i \in 1..Len(templates[typ].Flags)} :
                  typ \in {t \in DOMAIN templates : For(templates, t, last'.v)} }
    ]_vars

(***************************************************************************)
(* C14.  For(typ, name) on a registered type is true for "dump"; for any   *)
(* other name it is true iff the set registered last under typ declares no *)
(* list or a list that contains name.                                      *)
(***************************************************************************)
\* The set of the latest Register call under typ.
LatestRegistered(typ) ==
  LET regs == {i \in 1..Len(calls) :
                 calls[i].op = "Register" /\ calls[i].typ = typ}
  IN calls[CHOOSE i \in regs : \A j \in regs : j <= i].v

\* C14: For answers from the set registered last under the name.
C14_ForLastRegistered ==
  [][ (ForStep /\ last'.typ \in DOMAIN templates) =>
        LET set  == LatestRegistered(last'.typ)
            name == last'.v
        IN last'.ret = (\/ name = "dump"
                        \/ set.For = <<>>
                        \/ name \in Elems(set.For[1])) ]_vars

\* For has answered false for a name that the set registered first under
\* the type lists and the set registered second does not.
C14_Witness ==
  /\ last.op = "For"
  /\ last.ret = FALSE
  /\ Len(calls) = 3
  /\ calls[1].typ = last.typ /\ calls[2].typ = last.typ
  /\ calls[1].v.For # <<>> /\ contains(calls[1].v.For[1], last.v)
  /\ calls[2].v.For # <<>> /\ ~contains(calls[2].v.For[1], last.v)

(***************************************************************************)
(* C15.  Directory collision: a Process call that resolves a fragment to a *)
(* path that is a directory fails, in append mode or not; so after a       *)
(* Process call that returned nil no file buffer is for a directory.       *)
(***************************************************************************)
\* C15: no buffer of a successful Process is for a path that is a directory.
C15_DirectoryFailsProcess ==
  ProcessDone => \A f \in DOMAIN RunSet.files : disk[f].kind # "dir"

(***************************************************************************)
(* C16.  Post-processing outcome per file: in a Write call on a set with a *)
(* hook, a file whose hook run fails keeps its buffer, gets one post       *)
(* failure naming it at the end of its error list and is written with the  *)
(* content it had; a file whose hook run succeeds holds the output of one  *)
(* run of the hook, gets no post failure and is written with that output.  *)
(* A write happens when the path is not a directory.                       *)
(***************************************************************************)
\* C16: what one Write call does to each file buffer of a set with a hook.
C16_PostOutcomePerFile ==
  [][ (WriteStep /\ last'.typ \in DOMAIN templates
         /\ templates[last'.typ].Post # <<>>) =>
        LET old == templates[last'.typ]
            new == templates'[last'.typ]
        IN /\ DOMAIN new.files = DOMAIN old.files
           /\ \A f \in DOMAIN old.files :
                LET h    == PostHook(old.files[f].Buf)
                    post == SelectSeq(new.files[f].Err,
                                      LAMBDA e : e.kind = "post failed")
                    was  == SelectSeq(old.files[f].Err,
                                      LAMBDA e : e.kind = "post failed")
                IN IF h.err # NoErr
                   THEN /\ new.files[f].Buf = old.files[f].Buf
                        /\ post = Append(was, PostErr(f))
                        /\ disk[f].kind # "dir" =>
                              disk'[f] = Regular(old.files[f].Buf)
                   ELSE /\ new.files[f].Buf = h.buf
                        /\ post = was
                        /\ disk[f].kind # "dir" => disk'[f] = Regular(h.buf)
    ]_vars

\* After a Write, a file whose hook failed: its one error is the post
\* failure, and it is on disk with the content the hook rejected.
C16_Witness ==
  /\ last.op = "Write"
  /\ last.typ \in DOMAIN templates
  /\ RunSet.Post # <<>>
  /\ \E f \in DOMAIN RunSet.files :
        /\ RunSet.files[f].Err = <<PostErr(f)>>
        /\ PostHook(RunSet.files[f].Buf).err # NoErr
        /\ RunSet.files[f].Buf # <<>>
        /\ disk[f] = Regular(RunSet.files[f].Buf)

(***************************************************************************)
(* C17.  Emit: a successful Emit appends one (descriptor, rendered bytes)  *)
(* pair at the end of the fragment list and changes no other entry; an     *)
(* Emit whose Load or Exec fails returns the error and leaves the fragment *)
(* list and the file buffers as they were.  So a Process call whose        *)
(* generation logic fails at a descriptor leaves the fragment list         *)
(* extended by the pairs of the descriptors before it, and the file        *)
(* buffers untouched; one that succeeds adds one pair per descriptor.      *)
(***************************************************************************)
\* The entry Emit appends for a descriptor.
Pair(tpl) == [Template |-> tpl, Buf |-> <<Line(tpl)>>, File |-> ""]

\* How many entries of a fragment list hold descriptor tpl with its bytes.
PairCount(emitted, tpl) ==
  Cardinality({i \in 1..Len(emitted) :
                 emitted[i].Template = tpl /\ emitted[i].Buf = <<Line(tpl)>>})

\* Emit applied to set and tpl does what C17 says.
EmitAtomic(set, tpl) ==
  LET r == Emit(set, tpl) IN
  IF Load(set, tpl) = NoErr
  THEN /\ r.err = NoErr
       /\ r.set = [set EXCEPT !.emitted = @ \o <<Pair(tpl)>>]
  ELSE /\ r.err = Load(set, tpl)
       /\ r.set = set

\* C17: every Emit of a Process call is atomic, and the call leaves the
\* fragment list that such Emits add up to.
C17_EmitAtomic ==
  [][ (ProcessStep /\ last'.typ \in DOMAIN templates
         /\ templates[last'.typ].Files.funcs \notin BadScripts) =>
        LET old == templates[last'.typ]
            new == templates'[last'.typ]
            v   == last'.v
            bad == {k \in 1..Len(v) : Load(old, v[k]) # NoErr}
        IN /\ \A k \in 1..Len(v) : EmitAtomic(old, v[k]) /\ EmitAtomic(new, v[k])
           /\ bad # {} =>
                LET k == CHOOSE k \in bad : \A j \in bad : k <= j IN
                /\ last'.ret = Load(old, v[k])
                /\ new.emitted = old.emitted \o [i \in 1..(k - 1) |-> Pair(v[i])]
                /\ new.files = old.files
           /\ (bad = {} /\ last'.ret = NoErr) =>
                /\ Len(new.emitted)
                     = Len(old.emitted) + Len(v)
                         + (IF ~last'.doAppend /\ old.PackageTemplates # <<>>
                            THEN Len(old.PackageTemplates[1]) ELSE 0)
                /\ \A i \in 1..Len(v) :
                      PairCount(new.emitted, v[i])
                        = PairCount(old.emitted, v[i])
                            + Cardinality({j \in 1..Len(v) : v[j] = v[i]})
    ]_vars

\* A Process call has failed at its second descriptor: the fragment list
\* ends with the pair of the first.
C17_Witness ==
  /\ last.op = "Process"
  /\ last.typ \in DOMAIN templates
  /\ last.ret = "unable to open template"
  /\ Len(last.v) = 2
  /\ RunSet.emitted # <<>>
  /\ RunSet.emitted[Len(RunSet.emitted)] = Pair(last.v[1])

(***************************************************************************)
(* C18.  No fragment lost or duplicated by the merge: after a successful   *)
(* Process the bytes of every fragment emitted in the run are in exactly   *)
(* one file buffer, exactly once, whatever the processing order and the    *)
(* template names emitted.                                                 *)
(***************************************************************************)
\* How often line x is among the fragments merged into the buffers.
TimesMerged(x) ==
  Cardinality({fi \in UNION {{f} \X (1..Len(FragPart(f))) :
                               f \in DOMAIN RunSet.files} :
                 FragPart(fi[1])[fi[2]] = x})

\* C18 as stated, for a first run (the fragment list empty at its start):
\* each fragment of the run is merged as often as the run emitted it.
C18_EveryFragmentMergedOnce ==
  (ProcessDone /\ runs = 1) =>
    \A d \in Elems(last.v \o RunPkgs) :
       TimesMerged(Line(d)) = Occurrences(last.v \o RunPkgs, d)

\* How often the merge is to append line x to file f: once for each
\* listing, in the processing order, of the template name of each entry of
\* the fragment list that renders x and resolves to f.
Listings(f, x) ==
  LET order == FinalOrder(RunSet, last.doAppend) IN
  Cardinality({ki \in (1..Len(order)) \X (1..Len(RunSet.emitted)) :
                 /\ order[ki[1]] = RunSet.emitted[ki[2]].Template.Template
                 /\ RunFile(RunSet.emitted[ki[2]].Template) = f
                 /\ RunSet.emitted[ki[2]].Buf = <<x>>})

\* C18 as amended: each entry of the fragment list is appended to the one
\* buffer its file name resolves to, once per listing of its template name
\* in the final processing order, after the seed of that buffer.
C18_MergedOncePerListing ==
  ProcessDone =>
    \A f \in FileNames :
       LET seed == LoadFile(RunSet, disk, f, last.doAppend).buf
           n    == Len(seed)
       IN IF f \in DOMAIN RunSet.files
          THEN LET buf == RunSet.files[f].Buf IN
               /\ SubSeq(buf, 1, n) = seed
               /\ \A i \in 1..Len(RunSet.emitted) :
                     LET x == RunSet.emitted[i].Buf[1] IN
                     Occurrences(SubSeq(buf, n + 1, Len(buf)), x) = Listings(f, x)
               /\ \A k \in (n + 1)..Len(buf) : Listings(f, buf[k]) > 0
          ELSE \A i \in 1..Len(RunSet.emitted) :
                  Listings(f, RunSet.emitted[i].Buf[1]) = 0

\* A successful run whose three fragments, each of a template name listed
\* once, are each in one of two buffers.
C18_Witness ==
  /\ ProcessDone
  /\ Len(RunSet.emitted) = 3
  /\ Cardinality(DOMAIN RunSet.files) = 2
  /\ \A i \in 1..3 :
        /\ ListedOnce(RunSet.emitted[i].Template.Template)
        /\ TimesMerged(RunSet.emitted[i].Buf[1]) = 1

(***************************************************************************)
(* C19.  A failed run leaves nothing to persist: after a Process call on a *)
(* registered target that returned an error, the target holds no file      *)
(* buffer.                                                                 *)
(***************************************************************************)
\* C19: no file buffer after a failed Process.
C19_FailedRunNoBuffers ==
  (last.op = "Process" /\ last.ret # NoErr /\ last.typ \in DOMAIN templates)
    => RunSet.files = <<>>

====
